---- MODULE Spec2Model ----
(***************************************************************************)
(* Model of Super30_ResumeBuilder.py: a Streamlit script that is re-run    *)
(* from top to bottom on every user action.  One action of the model is    *)
(* one such handling pass (for "Rewrite Resume for Impact" the pass plus   *)
(* the pass that st.rerun() starts).                                       *)
(*                                                                         *)
(* Python values: None is the empty tuple <<>> and a present value x is    *)
(* <<x>>.  A Python str is a tuple of one-character strings.  The skills   *)
(* field is [isList |-> TRUE, v |-> list of strs] or                       *)
(* [isList |-> FALSE, v |-> <<the str>>].                                  *)
(*                                                                         *)
(* The LLM is outside the program: every outbound call either fails        *)
(* (exception) or returns a reply drawn from a small set; JSON replies     *)
(* follow the prompt's schema (skills is a JSON list).                     *)
(***************************************************************************)
EXTENDS Integers, Sequences, FiniteSets, TLC

VARIABLES resume_data,      \* st.session_state.resume_data
          markdown_resume,  \* st.session_state.markdown_resume
          cover_letter,     \* st.session_state.cover_letter
          cache,            \* the st.cache_data stores of the five generators
          n_outbound,       \* history: the number of outbound LLM calls
          seen,             \* history: the generator invocations that returned
          last,             \* history: what the last handling pass did
          sk_value,         \* skills value of the skills round trip
          sk_orig,          \* the list the round trip started from
          sk_str,           \* the string the editor showed
          sk_stage          \* position in the round trip

vars == <<resume_data, markdown_resume, cover_letter, cache, n_outbound, seen,
          last, sk_value, sk_orig, sk_str, sk_stage>>

appVars == <<resume_data, markdown_resume, cover_letter, cache, n_outbound, seen,
            last>>
skVars == <<sk_value, sk_orig, sk_str, sk_stage>>

----------------------------------------------------------------------------
(* Bounds *)

\* outbound LLM calls made in one run of the model
MaxCalls == 3
\* longest skills list of the skills round trip
MaxLen == 3

----------------------------------------------------------------------------
(* Python values *)

None == <<>>
Some(x) == <<x>>
\* truthiness of an optional text (None and "" are falsy)
TruthyText(opt) == opt # None /\ opt[1] # ""
\* truthiness of the optional resume dict (a parsed resume is a non-empty dict)
Present(opt) == opt # None

RECURSIVE LStrip(_)
LStrip(s) == IF s # <<>> /\ Head(s) = " " THEN LStrip(Tail(s)) ELSE s

RECURSIVE RStrip(_)
RStrip(s) ==
    IF s # <<>> /\ s[Len(s)] = " " THEN RStrip(SubSeq(s, 1, Len(s) - 1)) ELSE s

\* str.strip()
Strip(s) == RStrip(LStrip(s))

\* str.split(',')
RECURSIVE Split(_)
Split(s) ==
    IF \E i \in 1..Len(s) : s[i] = ","
    THEN LET i == CHOOSE k \in 1..Len(s) :
                     s[k] = "," /\ \A j \in 1..(k - 1) : s[j] # ","
         IN  <<SubSeq(s, 1, i - 1)>> \o Split(SubSeq(s, i + 1, Len(s)))
    ELSE <<s>>

\* ", ".join(list)
RECURSIVE Join(_)
Join(l) ==
    IF l = <<>> THEN <<>>
    ELSE IF Len(l) = 1 THEN l[1]
    ELSE l[1] \o <<",", " ">> \o Join(Tail(l))

ListSkills(l) == [isList |-> TRUE, v |-> l]
StrSkills(s) == [isList |-> FALSE, v |-> <<s>>]

\* lines 227-232: the skills editor turns a list into one string and writes
\* the text area's value (typed = None: the value shown) back into the record
SkillsEditor(skills, typed) ==
    LET skills_str == IF skills.isList THEN Join(skills.v) ELSE skills.v[1]
    IN  StrSkills(IF typed # None THEN typed[1] ELSE skills_str)

\* a normalisation that leaves the skills as they are
NormalizeSkillsNoop(skills) == skills

\* lines 245-246, 261-262, 280-281:
\* if isinstance(skills, str): skills = [s.strip() for s in skills.split(',')]
NormalizeSkills(skills) ==
    IF skills.isList THEN skills
    ELSE LET parts == Split(skills.v[1])
         IN  ListSkills([i \in 1..Len(parts) |-> Strip(parts[i])])

----------------------------------------------------------------------------
(* Inputs *)

\* sidebar credential; "" is the empty text input
Creds == {"", "k1"}
TwoCreds == {"k1", "k2"}
\* uploaded file: none, a stream fitz cannot open, a PDF without text, a profile
Pdfs == {None, Some("corrupt"), Some("blank"), Some("p1")}
TwoPdfs == {Some("p1"), Some("p2")}
\* job description text area: whitespace only, a posting
Jobs == {<<" ">>, <<"j">>}
TwoJobs == {<<>>, <<"j">>}
\* what the user types into the skills text area
TypedSkills == {<<" ", "a", ",">>}
\* what the user types into another resume field
TypedBodies == {"E"}
\* what the user types into the cover letter text area
TypedLetters == {"", "L"}

A == <<"a">>
B == <<"b">>
\* skills lists an LLM reply carries
ReplySkills == {<<A, B>>}

NoArgs == [text |-> "", resume |-> None, job |-> <<>>]
NoVal == [rec |-> None, txt |-> ""]
FailReply == [ok |-> FALSE, val |-> NoVal]

JsonReplies(bodies) ==
    {[ok |-> TRUE,
      val |-> [rec |-> Some([body |-> b, skills |-> ListSkills(l)]), txt |-> ""]] :
        b \in bodies, l \in ReplySkills} \cup {FailReply}

TextReplies(texts) ==
    {[ok |-> TRUE, val |-> [rec |-> None, txt |-> t]] : t \in texts} \cup {FailReply}

----------------------------------------------------------------------------
(* Core functions *)

\* lines 18-29: the text of the PDF, or None (after st.error) when fitz raises
extract_text_from_pdf(pdf_file) ==
    CASE pdf_file = "corrupt" -> None
      [] pdf_file = "blank" -> Some("")
      [] pdf_file = "p1" -> Some("t1")
      [] OTHER -> Some("t2")

\* ChatGroq(temperature=..., groq_api_key=..., model_name=...)
ChatGroq(temperature, groq_api_key) ==
    [groq_api_key |-> groq_api_key, temperature |-> temperature]

\* a key that leaves out the text argument as well
CacheKeyWithoutText(fn, llm, args) ==
    [fn |-> fn, args |-> [args EXCEPT !.text = ""]]

\* @st.cache_data: the key is the function and its hashed arguments; a
\* parameter whose name starts with an underscore (_llm) is not hashed
CacheKey(fn, llm, args) == [fn |-> fn, args |-> args]

\* a store that never finds an entry
CachedNever(c, key) == {}

\* @st.cache_data: the stored entries of a key
Cached(c, key) == {e \in c : e.key = key}

\* What the LLM can answer to an invocation: nothing is asked on a hit
Replies(fn, llm, args, c, replies) ==
    IF Cached(c, CacheKey(fn, llm, args)) # {} THEN {FailReply} ELSE replies

\* One call of a cached generator: a hit returns the stored value; a miss
\* runs the body (chain.invoke: one outbound LLM call), which raises or
\* returns a value that is then stored.
Invoke(fn, llm, args, reply, c, ob, sn) ==
    LET key == CacheKey(fn, llm, args)
        hits == Cached(c, key)
        hit == hits # {}
        val == IF hit THEN (CHOOSE e \in hits : TRUE).val ELSE reply.val
        outcome == IF hit THEN "hit" ELSE IF reply.ok THEN "returned" ELSE "raised"
        same == {s \in sn : s.fn = fn /\ s.args = args}
    IN  [ok |-> hit \/ reply.ok,
         blocked |-> ~hit /\ ob >= MaxCalls,
         val |-> val,
         cache |-> IF hit \/ ~reply.ok THEN c
                   ELSE c \cup {[key |-> key, val |-> reply.val]},
         outbound |-> IF hit THEN ob ELSE ob + 1,
         seen |-> IF outcome = "raised" THEN sn
                  ELSE sn \cup {[fn |-> fn, llm |-> llm, args |-> args]},
         \* history of this invocation: the form of the skills it was given,
         \* what it returned, whether an LLM call went out, and whether an
         \* earlier invocation that returned had the same inputs, the same
         \* client and inputs
         inv |-> [fn |-> fn, outcome |-> outcome, val |-> val,
                  skillsIsList |-> args.resume = None \/ args.resume[1].skills.isList,
                  sameInputs |-> same # {},
                  sameTuple |-> \E s \in same : s.llm = llm]]

----------------------------------------------------------------------------
(* Pieces of the script *)

NoEdit == [body |-> None, skills |-> None]

\* lines 193-232: each editor writes its widget's value back into the record
Editors(rd, edit) ==
    IF Present(rd)
    THEN Some([body |-> IF edit.body # None THEN edit.body[1] ELSE rd[1].body,
               skills |-> SkillsEditor(rd[1].skills, edit.skills)])
    ELSE rd

\* the in-place normalisation before a generator call
Normalized(rd) == Some([rd[1] EXCEPT !.skills = NormalizeSkills(@)])

\* lines 267-269: the cover letter text area, shown only for a truthy letter
CoverLetterEditor(cl, typed) ==
    IF TruthyText(cl) THEN (IF typed # None THEN typed ELSE cl) ELSE cl

\* a test of the job text that does not strip it
ShouldCustomizeNoStrip(job_description) == job_description # <<>>

\* line 185: if job_description.strip()
ShouldCustomize(job_description) == Strip(job_description) # <<>>

\* lines 172-173: Generate & Customize clears both artifacts first
Cleared(artifact) == None

\* a choice that drops the tailored record
FinalResumeUntailored(resume_json, customized) == resume_json

\* lines 184-190: the record Generate & Customize stores when it tailors
FinalResume(resume_json, customized) == customized

\* the four buttons
Buttons == {"Generate", "Rewrite", "GenerateCoverLetter", "Prepare"}

\* the input a button's action needs and was triggered without
Missing(action, cred, pdf, job) ==
    IF action \notin Buttons THEN "none"
    ELSE IF cred = "" THEN "credential"
    ELSE IF action = "Generate" /\ pdf = None THEN "upload"
    ELSE IF action = "GenerateCoverLetter" /\ Strip(job) = <<>> THEN "job text"
    ELSE "none"

\* history of a pass: the action, the input it was missing, whether
\* Generate & Customize had all it needs and a non-blank job text, whether
\* the extractor ran, the generator invocations in order, and what was
\* reported to the user
PassInfo(action, cred, pdf, job, extracted, invoked, reported) ==
    [action |-> action,
     missing |-> Missing(action, cred, pdf, job),
     tailoring |-> /\ action = "Generate"
                   /\ Missing(action, cred, pdf, job) = "none"
                   /\ Strip(job) # <<>>,
     extracted |-> extracted, invoked |-> invoked, reported |-> reported]

\* the state a handling pass leaves behind
Finish(rd, md, cl, c, ob, sn, info) ==
    /\ resume_data' = rd
    /\ markdown_resume' = md
    /\ cover_letter' = cl
    /\ cache' = c
    /\ n_outbound' = ob
    /\ seen' = sn
    /\ last' = info
    /\ UNCHANGED skVars

----------------------------------------------------------------------------
(* Handling passes *)

\* lines 171-191, then the editors of the same pass (lines 193-305)
Generate(groq_api_key, uploaded_pdf, job_description) ==
    LET md == Cleared(markdown_resume)
        cl == Cleared(cover_letter)
        llm == ChatGroq("0.2", groq_api_key)
        document_text == extract_text_from_pdf(uploaded_pdf[1])
        args1 == [NoArgs EXCEPT !.text = document_text[1]]
        Info(extracted, invoked, reported) ==
            PassInfo("Generate", groq_api_key, uploaded_pdf, job_description,
                     extracted, invoked, reported)
        \* the rest of the script after the handler returned normally
        Rest(rd, c, ob, sn, info) ==
            Finish(Editors(rd, NoEdit), md, CoverLetterEditor(cl, None), c, ob, sn, info)
    IN  IF groq_api_key = ""
        THEN Rest(resume_data, cache, n_outbound, seen, Info(FALSE, <<>>, "error"))
        ELSE IF uploaded_pdf = None
        THEN Rest(resume_data, cache, n_outbound, seen, Info(FALSE, <<>>, "error"))
        ELSE IF document_text = None
        THEN Rest(resume_data, cache, n_outbound, seen, Info(TRUE, <<>>, "error"))
        ELSE IF ~TruthyText(document_text)
        THEN Rest(resume_data, cache, n_outbound, seen, Info(TRUE, <<>>, "none"))
        ELSE \E reply1 \in Replies("generate_resume_from_text", llm, args1, cache,
                                   JsonReplies({"S"})) :
             \E r1 \in {Invoke("generate_resume_from_text", llm, args1, reply1,
                                cache, n_outbound, seen)} :
             LET args2 == [NoArgs EXCEPT !.resume = r1.val.rec,
                                         !.job = job_description]
             IN  /\ ~r1.blocked
                 /\ IF ~r1.ok
                    THEN Finish(resume_data, md, cl, r1.cache, r1.outbound, r1.seen,
                                Info(TRUE, <<r1.inv>>, "exception"))
                    ELSE IF ~ShouldCustomize(job_description)
                    THEN Rest(r1.val.rec, r1.cache, r1.outbound, r1.seen,
                              Info(TRUE, <<r1.inv>>, "success"))
                    ELSE \E reply2 \in Replies("customize_resume_for_job", llm,
                                               args2, r1.cache, JsonReplies({"T"})) :
                         \E r2 \in {Invoke("customize_resume_for_job", llm, args2,
                                          reply2, r1.cache, r1.outbound, r1.seen)} :
                             /\ ~r2.blocked
                             /\ IF ~r2.ok
                                THEN Finish(resume_data, md, cl,
                                            r2.cache, r2.outbound, r2.seen,
                                            Info(TRUE, <<r1.inv, r2.inv>>, "exception"))
                                ELSE Rest(FinalResume(r1.val.rec, r2.val.rec),
                                          r2.cache, r2.outbound, r2.seen,
                                          Info(TRUE, <<r1.inv, r2.inv>>, "success"))

\* lines 240-251, and the pass st.rerun() starts after a successful rewrite
Rewrite(groq_api_key) ==
    LET edited == Editors(resume_data, NoEdit)
        llm == ChatGroq("0.4", groq_api_key)
        normalized == Normalized(edited)
        args == [NoArgs EXCEPT !.resume = normalized]
        Info(invoked, reported) ==
            PassInfo("Rewrite", groq_api_key, None, <<>>, FALSE, invoked, reported)
    IN  /\ Present(resume_data)
        /\ IF groq_api_key = ""
           THEN Finish(edited, markdown_resume, CoverLetterEditor(cover_letter, None),
                       cache, n_outbound, seen, Info(<<>>, "error"))
           ELSE \E reply \in Replies("rewrite_resume_for_impact", llm, args, cache,
                                     JsonReplies({"I"})) :
                \E r \in {Invoke("rewrite_resume_for_impact", llm, args, reply,
                                cache, n_outbound, seen)} :
                    /\ ~r.blocked
                    /\ IF ~r.ok
                       THEN Finish(normalized, markdown_resume, cover_letter,
                                   r.cache, r.outbound, r.seen,
                                   Info(<<r.inv>>, "exception"))
                       ELSE Finish(Editors(r.val.rec, NoEdit), markdown_resume,
                                   CoverLetterEditor(cover_letter, None),
                                   r.cache, r.outbound, r.seen,
                                   Info(<<r.inv>>, "success"))

\* lines 253-269
GenerateCoverLetter(groq_api_key, job_description) ==
    LET edited == Editors(resume_data, NoEdit)
        llm == ChatGroq("0.5", groq_api_key)
        normalized == Normalized(edited)
        args == [NoArgs EXCEPT !.resume = normalized, !.job = job_description]
        Info(invoked, reported) ==
            PassInfo("GenerateCoverLetter", groq_api_key, None, job_description,
                     FALSE, invoked, reported)
    IN  /\ Present(resume_data)
        /\ IF groq_api_key = "" \/ Strip(job_description) = <<>>
           THEN Finish(edited, markdown_resume, CoverLetterEditor(cover_letter, None),
                       cache, n_outbound, seen, Info(<<>>, "error"))
           ELSE \E reply \in Replies("generate_cover_letter", llm, args, cache,
                                     TextReplies({"C"})) :
                \E r \in {Invoke("generate_cover_letter", llm, args, reply,
                                cache, n_outbound, seen)} :
                    /\ ~r.blocked
                    /\ IF ~r.ok
                       THEN Finish(normalized, markdown_resume, cover_letter,
                                   r.cache, r.outbound, r.seen,
                                   Info(<<r.inv>>, "exception"))
                       ELSE Finish(normalized, markdown_resume,
                                   CoverLetterEditor(Some(r.val.txt), None),
                                   r.cache, r.outbound, r.seen,
                                   Info(<<r.inv>>, "success"))

\* lines 274-284
Prepare(groq_api_key) ==
    LET edited == Editors(resume_data, NoEdit)
        cl == CoverLetterEditor(cover_letter, None)
        llm == ChatGroq("0.2", groq_api_key)
        normalized == Normalized(edited)
        args == [NoArgs EXCEPT !.resume = normalized]
        Info(invoked, reported) ==
            PassInfo("Prepare", groq_api_key, None, <<>>, FALSE, invoked, reported)
    IN  /\ Present(resume_data)
        /\ IF groq_api_key = ""
           THEN Finish(edited, markdown_resume, cl,
                       cache, n_outbound, seen, Info(<<>>, "error"))
           ELSE \E reply \in Replies("generate_markdown_resume", llm, args, cache,
                                     TextReplies({"M"})) :
                \E r \in {Invoke("generate_markdown_resume", llm, args, reply,
                                cache, n_outbound, seen)} :
                    /\ ~r.blocked
                    /\ IF ~r.ok
                       THEN Finish(normalized, markdown_resume, cl,
                                   r.cache, r.outbound, r.seen,
                                   Info(<<r.inv>>, "exception"))
                       ELSE Finish(normalized, Some(r.val.txt), cl,
                                   r.cache, r.outbound, r.seen,
                                   Info(<<r.inv>>, "success"))

\* lines 193-232: the user changed one resume field
EditResume(edit) ==
    /\ Present(resume_data)
    /\ Finish(Editors(resume_data, edit), markdown_resume,
              CoverLetterEditor(cover_letter, None), cache, n_outbound, seen,
              PassInfo("EditResume", "", None, <<>>, FALSE, <<>>, "none"))

\* lines 267-269: the user changed the cover letter text
EditCoverLetter(typed) ==
    /\ Present(resume_data)
    /\ TruthyText(cover_letter)
    /\ Finish(Editors(resume_data, NoEdit), markdown_resume,
              CoverLetterEditor(cover_letter, Some(typed)), cache, n_outbound, seen,
              PassInfo("EditCoverLetter", "", None, <<>>, FALSE, <<>>, "none"))

\* a pass with no button pressed and no resume field changed (a sidebar input changed)
Rerun ==
    Finish(Editors(resume_data, NoEdit), markdown_resume,
           CoverLetterEditor(cover_letter, None), cache, n_outbound, seen,
           PassInfo("Rerun", "", None, <<>>, FALSE, <<>>, "none"))

----------------------------------------------------------------------------
(* The session *)

\* lines 135-141
Init ==
    /\ resume_data = None
    /\ markdown_resume = None
    /\ cover_letter = None
    /\ cache = {}
    /\ n_outbound = 0
    /\ seen = {}
    /\ last = PassInfo("start", "", None, <<>>, FALSE, <<>>, "none")
    /\ sk_value = ListSkills(<<>>)
    /\ sk_orig = <<>>
    /\ sk_str = <<>>
    /\ sk_stage = "off"

\* while no session runs
SessionIdle ==
    /\ resume_data = None
    /\ markdown_resume = None
    /\ cover_letter = None
    /\ cache = {}
    /\ n_outbound = 0
    /\ seen = {}
    /\ last = PassInfo("start", "", None, <<>>, FALSE, <<>>, "none")

NextOver(creds, pdfs, jobs) ==
    \/ \E k \in creds, f \in pdfs, j \in jobs : Generate(k, f, j)
    \/ \E k \in creds : Rewrite(k)
    \/ \E k \in creds, j \in jobs : GenerateCoverLetter(k, j)
    \/ \E k \in creds : Prepare(k)

Edits ==
    \/ \E b \in TypedBodies : EditResume([body |-> Some(b), skills |-> None])
    \/ \E t \in TypedSkills : EditResume([body |-> None, skills |-> Some(t)])
    \/ \E t \in TypedLetters : EditCoverLetter(t)
    \/ Rerun

\* a session of one user with one credential and one profile
Next == NextOver(Creds, Pdfs, Jobs) \/ Edits

Spec == Init /\ [][Next]_vars

\* the generators called with two credentials and two profiles
NextMemo == NextOver(TwoCreds, TwoPdfs, TwoJobs)

SpecMemo == Init /\ [][NextMemo]_vars

----------------------------------------------------------------------------
(* The skills round trip: the editor's join (lines 227-232) followed by   *)
(* the normalisation before a generator call (lines 280-281)              *)

\* skill names without commas and without leading or trailing whitespace
SkillItems == {<<>>, <<"a">>, <<"b">>, <<"a", " ", "b">>}

Python == <<"P", "y", "t", "h", "o", "n">>
SQL == <<"S", "Q", "L">>
Leadership == <<"L", "e", "a", "d", "e", "r", "s", "h", "i", "p">>

SkillLists ==
    UNION {[1..n -> SkillItems] : n \in 0..MaxLen} \cup {<<Python, SQL, Leadership>>}

SkillsInit ==
    /\ SessionIdle
    /\ sk_orig \in SkillLists
    /\ sk_value = ListSkills(sk_orig)
    /\ sk_str = <<>>
    /\ sk_stage = "list"

\* lines 227-232 with the text area left as shown
ShowInEditor ==
    /\ sk_stage \in {"list", "normalized"}
    /\ sk_value' = SkillsEditor(sk_value, None)
    /\ sk_str' = sk_value'.v[1]
    /\ sk_stage' = "edited"
    /\ UNCHANGED <<sk_orig, appVars>>

\* lines 280-281
NormalizeForGenerator ==
    /\ sk_stage = "edited"
    /\ sk_value' = NormalizeSkills(sk_value)
    /\ sk_stage' = "normalized"
    /\ UNCHANGED <<sk_orig, sk_str, appVars>>

SkillsNext == ShowInEditor \/ NormalizeForGenerator

SpecSkills == SkillsInit /\ [][SkillsNext]_vars

----------------------------------------------------------------------------
(* Properties *)

\* the action was triggered without an input it needs
ConfigurationError(l) == l.missing # "none"

\* the resume as its editors show it: the skills as one string
Shown(rd) == Editors(rd, NoEdit)

SessionUnchanged ==
    /\ resume_data' = resume_data
    /\ markdown_resume' = markdown_resume
    /\ cover_letter' = cover_letter

Invocations(l, fns) == {i \in 1..Len(l.invoked) : l.invoked[i].fn \in fns}

\* the record the named generator returned in the last pass
Output(fn) == last.invoked[CHOOSE i \in Invocations(last, {fn}) : TRUE].val.rec[1]

\* C1: an action triggered with a missing credential (or Generate without an
\* upload, or Generate Cover Letter with blank job text) runs no extractor
\* and no generator and leaves the resume, the markup and the cover letter
\* as they were (the resume is compared as its editors show it, so that the
\* list and the string form of the same skills count as equal).
C1_ConfigErrorLeavesSession ==
    [][ConfigurationError(last') =>
            /\ last'.invoked = <<>>
            /\ ~last'.extracted
            /\ Shown(resume_data') = Shown(resume_data)
            /\ markdown_resume' = markdown_resume
            /\ cover_letter' = cover_letter]_vars

\* C2 as stated: when the Markup Formatter fails in Prepare Documents for
\* Download, the resume (skills included), the cover letter and the stored
\* markup are the same after the action as before it.
C2_FormatterFailureLeavesAll ==
    [][(last'.action = "Prepare" /\ last'.reported = "exception")
            => SessionUnchanged]_vars

\* C2 amended: when the Markup Formatter fails in Prepare Documents for
\* Download, the cover letter and the stored markup are unchanged and the
\* resume is unchanged except for its skills, which are left as the list
\* obtained by splitting the editor's string on ',' and stripping each piece.
C2_FormatterFailureKeepsArtifacts ==
    [][(last'.action = "Prepare" /\ last'.reported = "exception") =>
            LET before == resume_data[1]
                shown == IF before.skills.isList THEN Join(before.skills.v)
                         ELSE before.skills.v[1]
                pieces == Split(shown)
            IN  /\ resume_data' # None
                /\ resume_data'[1].body = before.body
                /\ resume_data'[1].skills.isList
                /\ resume_data'[1].skills.v =
                       [i \in 1..Len(pieces) |-> Strip(pieces[i])]
                /\ cover_letter' = cover_letter
                /\ markdown_resume' = markdown_resume]_vars

\* C2 witness: the formatter failed while an earlier markup was stored
C2_Witness ==
    /\ last.action = "Prepare"
    /\ last.reported = "exception"
    /\ markdown_resume # None
    /\ resume_data # None /\ resume_data[1].skills.isList

\* C3: once an invocation of the Resume Structuring Generator has returned
\* for a (client, text) pair, every later invocation with that pair is
\* served from the memo and makes no outbound LLM call.
C3_StructuringMemoized ==
    \A i \in Invocations(last, {"generate_resume_from_text"}) :
        last.invoked[i].sameTuple => last.invoked[i].outcome = "hit"

\* C3 witness: a repeated (client, text) pair was served from the memo
C3_Witness ==
    \E i \in Invocations(last, {"generate_resume_from_text"}) :
        last.invoked[i].sameTuple /\ last.invoked[i].outcome = "hit"

GenerateSucceeded == last.action = "Generate" /\ last.reported = "success"

\* the generator whose output a successful Generate & Customize must store
Chosen ==
    IF last.tailoring THEN "customize_resume_for_job" ELSE "generate_resume_from_text"

\* C5 as stated: after a successful Generate & Customize the resume is the
\* Tailoring Generator's output when the job text is non-blank and the
\* Structuring Generator's output otherwise, unchanged, and the markup and
\* the cover letter are absent.
C5_GenerateStoresOutput ==
    GenerateSucceeded =>
        /\ Invocations(last, {Chosen}) # {}
        /\ resume_data = Some(Output(Chosen))
        /\ markdown_resume = None
        /\ cover_letter = None

\* C5 amended: after a successful Generate & Customize the resume is the
\* Tailoring Generator's output when the job text is non-blank and the
\* Structuring Generator's output otherwise, except that its skills are held
\* as the editor's string (the output's list joined with ", "); the markup
\* and the cover letter are absent.
C5_GenerateStoresOutputAsEdited ==
    GenerateSucceeded =>
        /\ Invocations(last, {Chosen}) # {}
        /\ resume_data # None
        /\ resume_data[1].body = Output(Chosen).body
        /\ ~resume_data[1].skills.isList
        /\ resume_data[1].skills.v = <<Join(Output(Chosen).skills.v)>>
        /\ markdown_resume = None
        /\ cover_letter = None

\* C5 witness: a tailored generation in a session that had prepared a markup
C5_Witness ==
    /\ GenerateSucceeded
    /\ last.tailoring
    /\ Len(last.invoked) = 2
    /\ \E e \in cache : e.key.fn = "generate_markdown_resume"

TakesResume == {"customize_resume_for_job", "rewrite_resume_for_impact",
                "generate_cover_letter", "generate_markdown_resume"}

\* C6: whenever a generator that takes a resume is invoked, the resume's
\* skills are a list, never the editor's comma-separated string.
C6_SkillsListAtGenerators ==
    \A i \in Invocations(last, TakesResume) : last.invoked[i].skillsIsList

\* C6 witness: a generator was invoked from the editing surface, where the
\* skills editor had stored its string
C6_Witness ==
    /\ last.action \in {"Rewrite", "GenerateCoverLetter", "Prepare"}
    /\ Invocations(last, TakesResume) # {}

\* C7 as stated: no handling pass invokes two generators.
C7_OneGeneratorPerPass == Len(last.invoked) <= 1

\* C7 amended: a handling pass invokes at most one generator, except
\* Generate & Customize with non-blank job text, which invokes the
\* Structuring Generator and then the Tailoring Generator.
C7_OneGeneratorExceptTailoring ==
    /\ Len(last.invoked) <= 2
    /\ Len(last.invoked) = 2 =>
            /\ last.action = "Generate"
            /\ last.tailoring
            /\ last.invoked[1].fn = "generate_resume_from_text"
            /\ last.invoked[2].fn = "customize_resume_for_job"

\* C7 witness: a pass that invoked both generators
C7_Witness == Len(last.invoked) = 2

\* C8: every Generate & Customize pass ends having reported success or an
\* error.
C8_GenerateAlwaysReports == last.action = "Generate" => last.reported # "none"

\* C9: joining a skills list as the editor does and normalizing the string
\* gives back the list, and joining the normalized list gives the string.
C9_SkillsRoundTrip ==
    sk_stage = "normalized" =>
        /\ sk_value = ListSkills(sk_orig)
        /\ Join(sk_value.v) = sk_str

\* C10 as stated: Rewrite, Generate Cover Letter and resume edits leave the
\* stored markup unchanged, Rewrite and Prepare leave the stored cover letter
\* unchanged, and a present artifact becomes absent only through Generate &
\* Customize (an artifact is present when the script's own test of it, its
\* truth value, finds it).
C10_ArtifactsPersist ==
    [][/\ last'.action \in {"Rewrite", "GenerateCoverLetter", "EditResume"}
            => markdown_resume' = markdown_resume
       /\ last'.action \in {"Rewrite", "Prepare"}
            => cover_letter' = cover_letter
       /\ \/ TruthyText(markdown_resume) /\ ~TruthyText(markdown_resume')
          \/ TruthyText(cover_letter) /\ ~TruthyText(cover_letter')
            => last'.action = "Generate"]_vars

====
